---- MODULE Spec2Model ----
(***************************************************************************)
(* Conversation-and-tool-call orchestration of text2sql_w_mcp.             *)
(*                                                                         *)
(* The objects of the repository are modelled one per deployment:          *)
(*   "chat"     - client/client.py, class Chat (token mode): the message   *)
(*                log, the session handle, process_query with its parser   *)
(*                and its tool executor, the chat loop, run(), and the     *)
(*                web UI's Clear History;                                  *)
(*   "executor" - client/tool_executor.py, class MCPToolExecutor, and the  *)
(*                message processors of client/processors.py over it;      *)
(*   "session"  - client/session.py, class InMemoryChatSession, and a      *)
(*                caller of its get_messages;                              *)
(*   "web"      - app.py, process_user_input;                              *)
(*   "cli"      - run.py, main, which runs the Chat of "chat";             *)
(*   "structured" - client.py at the repository root, class Chat.          *)
(* Texts are TLA+ strings; Python's `in`, find, slicing, strip and lower   *)
(* are computed character by character.                                    *)
(***************************************************************************)
EXTENDS Integers, Sequences, FiniteSets, TLC

(***************************************************************************)
(* Bounds of the model.                                                    *)
(***************************************************************************)
\* process_query is started only while the log can still take a whole cycle
MaxLog == 7
\* run() is entered at most this many times on one Chat object
MaxRuns == 2
\* InMemoryChatSession holds at most this many messages
MaxStore == 3
\* a caller edits the list it got from get_messages at most this many times
MaxEdits == 1
\* the structured-mode client starts a query only while its history can
\* still take a whole cycle within this many messages
MaxHistory == 8
\* process_query calls made on one structured-mode Chat
MaxQueries == 2
\* a Chat of a pair starts a query only while its log can take a whole
\* cycle within this many messages
MaxPairLog == 7
\* the web UI accepts a message only while its history can take the
\* message and its answer within this many entries
MaxUiHistory == 4

(***************************************************************************)
(* Python string operations.                                               *)
(***************************************************************************)
Min(S) == CHOOSE x \in S : \A y \in S : x <= y

\* text[a:b] for 0 <= a <= b <= len(text)
Slice(text, a, b) == SubSeq(text, a + 1, b)

\* pat in text
Contains(text, pat) ==
    \E i \in 0..(Len(text) - Len(pat)) : Slice(text, i, i + Len(pat)) = pat

\* text.find(pat, start): the lowest 0-based index at or after start, or -1
Find(text, pat, start) ==
    LET hits == {i \in start..(Len(text) - Len(pat)) :
                    Slice(text, i, i + Len(pat)) = pat}
    IN  IF hits = {} THEN -1 ELSE Min(hits)

\* text.startswith(pat)
StartsWith(text, pat) ==
    Len(pat) <= Len(text) /\ Slice(text, 0, Len(pat)) = pat

IsSpace(c) == c \in {" ", "\n", "\t", "\r"}

\* text.strip()
Strip(text) ==
    LET n     == Len(text)
        inner == {i \in 1..n : ~IsSpace(SubSeq(text, i, i))}
    IN  IF inner = {} THEN ""
        ELSE SubSeq(text, Min(inner),
                    CHOOSE j \in inner : \A k \in inner : k <= j)

UpperChars == "ABCDEFGHIJKLMNOPQRSTUVWXYZ"
LowerChars == "abcdefghijklmnopqrstuvwxyz"

LowerChar(c) ==
    LET at == {i \in 1..Len(UpperChars) : SubSeq(UpperChars, i, i) = c}
    IN  IF at = {} THEN c ELSE SubSeq(LowerChars, Min(at), Min(at))

UpperChar(c) ==
    LET at == {i \in 1..Len(LowerChars) : SubSeq(LowerChars, i, i) = c}
    IN  IF at = {} THEN c ELSE SubSeq(UpperChars, Min(at), Min(at))

RECURSIVE Lower(_)
\* text.lower()
Lower(text) ==
    IF Len(text) = 0 THEN ""
    ELSE LowerChar(SubSeq(text, 1, 1)) \o Lower(SubSeq(text, 2, Len(text)))

RECURSIVE Upper(_)
\* text.upper()
Upper(text) ==
    IF Len(text) = 0 THEN ""
    ELSE UpperChar(SubSeq(text, 1, 1)) \o Upper(SubSeq(text, 2, Len(text)))

(***************************************************************************)
(* Python regular expressions (re), as far as processors.py uses them.     *)
(***************************************************************************)
Max(S) == CHOOSE x \in S : \A y \in S : y <= x

\* the character at 0-based index i
CharAt(text, i) == SubSeq(text, i + 1, i + 1)

\* \s
IsReSpace(c) == c \in {" ", "\n", "\t", "\r", "\f"}

\* \w
WordChars == UpperChars \o LowerChars \o "0123456789_"

IsWordChar(c) == \E i \in 1..Len(WordChars) : SubSeq(WordChars, i, i) = c

\* how many characters from index s on satisfy the class: the distance to
\* the first one that does not, or to the end of the text
SpaceRun(text, s) ==
    Min({k \in 0..(Len(text) - s) :
            k = Len(text) - s \/ ~IsReSpace(CharAt(text, s + k))})

WordRun(text, s) ==
    Min({k \in 0..(Len(text) - s) :
            k = Len(text) - s \/ ~IsWordChar(CharAt(text, s + k))})

\* the 0-based indices where the literal matches under re.IGNORECASE
LiteralStarts(text, literal) ==
    {i \in 0..(Len(text) - Len(literal)) :
        \A j \in 0..(Len(literal) - 1) :
            UpperChar(CharAt(text, i + j)) = UpperChar(CharAt(literal, j))}

NoMatch == [matched |-> FALSE, group |-> ""]
Match(group) == [matched |-> TRUE, group |-> group]

\* \s*(.+?)(?:\n|$) with re.DOTALL, tried at index s: \s* gives back from
\* its longest run, .+? grows from one character (a newline included) until
\* a newline or the end of the text follows
SqlGroupAt(text, s) ==
    LET n  == Len(text)
        ks == {k \in 0..SpaceRun(text, s) : s + k < n}
    IN  IF ks = {} THEN NoMatch
        ELSE LET g == s + Max(ks)
                 e == Min({j \in (g + 1)..n : j = n \/ CharAt(text, j) = "\n"})
             IN  Match(Slice(text, g, e))

\* \s*(\w+), tried at index s: \w+ takes the longest run of word characters
WordGroupAt(text, s) ==
    LET ks == {k \in 0..SpaceRun(text, s) : WordRun(text, s + k) >= 1}
    IN  IF ks = {} THEN NoMatch
        ELSE LET g == s + Max(ks)
             IN  Match(Slice(text, g, g + WordRun(text, g)))

\* SQL_PATTERN.search(message): the leftmost index where the pattern matches
SqlSearch(message) ==
    LET hits == {i \in LiteralStarts(message, "EXECUTE_SQL:") :
                    SqlGroupAt(message, i + Len("EXECUTE_SQL:")).matched}
    IN  IF hits = {} THEN NoMatch
        ELSE SqlGroupAt(message, Min(hits) + Len("EXECUTE_SQL:"))

\* ANALYSIS_PATTERN.search(message)
AnalysisSearch(message) ==
    LET hits == {i \in LiteralStarts(message, "ANALYZE_TABLE:") :
                    WordGroupAt(message, i + Len("ANALYZE_TABLE:")).matched}
    IN  IF hits = {} THEN NoMatch
        ELSE WordGroupAt(message, Min(hits) + Len("ANALYZE_TABLE:"))

(***************************************************************************)
(* Messages (client/types.py).                                             *)
(***************************************************************************)
SYSTEM    == "system"
USER      == "user"
ASSISTANT == "assistant"
TOOL      == "tool"

Message(role, content) == [role |-> role, content |-> content]

\* The persona text of the System seed, cut after its first sentence.
SystemPrompt == "You are an expert SQL analyst assistant. Your job is to:\n"

\* Chat.messages default_factory: exactly one System message
SeedMessages == <<Message(SYSTEM, SystemPrompt)>>

(***************************************************************************)
(* What the outside world can answer.                                      *)
(***************************************************************************)
\* str(e) of the exceptions a model call or a remote call can raise
ErrorTexts == {"connection closed"}

\* genai_client.models.generate_content: response.text, or an exception.
\* A response without text (None or "") is the text "".
ResponseTexts ==
    {"The answer is 42.\n", "GET_SCHEMA", "get_schema",
     "EXECUTE_SQL: SELECT 1", "execute_sql: SELECT 1",
     "EXECUTE_SQL: SELECT 1\nExplanation text",
     "EXECUTE_SQL:\nExplanation text",
     "EXECUTE_SQL: SELECT 1\nGET_SCHEMA",
     "I will ANALYZE_TABLE: users", "Analyze_Table: users",
     "ANALYZE_TABLE: users table please"}

FirstResponses ==
    {[kind |-> "text", text |-> t] : t \in ResponseTexts \cup {""}}
    \cup {[kind |-> "raise", text |-> m] : m \in ErrorTexts}

FollowupResponses ==
    {[kind |-> "text", text |-> t] :
        t \in {"", "Here is the summary.", "Next: EXECUTE_SQL: SELECT 2"}}
    \cup {[kind |-> "raise", text |-> m] : m \in ErrorTexts}

\* session.call_tool: a result whose first content item carries text, a
\* result with no content, a result whose first item has no text, or an
\* exception (transport or remote side). The text is one the tools of
\* main/server.py produce.
ToolTexts == {"Query results (1 rows):\n\n| 1 |\n"}

RemoteOutcomes ==
    {[kind |-> "text", text |-> t] : t \in ToolTexts}
    \cup {[kind |-> "empty", text |-> ""], [kind |-> "nontext", text |-> ""]}
    \cup {[kind |-> "raise", text |-> m] : m \in ErrorTexts}

NoOutcome == [kind |-> "none", text |-> ""]

\* what the user types at the prompt, or passes to process_query
Queries == {"show me the schema"}
InputLines == {"", "   ", " show me the schema ", "Quit", "q", "EXIT", " bye "}

ToolNames == {"get_schema", "query_data", "analyze_table"}

(***************************************************************************)
(* How a Python call ends: it returns a value or it raises.                *)
(***************************************************************************)
Returned(value) == [kind |-> "returned", value |-> value]
Raised(msg)     == [kind |-> "raised", value |-> msg]
NoReturn        == [kind |-> "none", value |-> ""]

(***************************************************************************)
(* The content adapters: Chat._convert_messages_to_content and             *)
(* InMemoryChatSession.convert_to_gemini_content.                          *)
(***************************************************************************)
\* a role value that is none of the four members of MessageRole
UnknownRole == "function"

\* Content(role=..., parts=[Part.from_text(text=...)])
Content(role, text) == [role |-> role, text |-> text]

Chat_RenderOne_Truncated(msg) ==
    IF msg.role = SYSTEM THEN <<Content("user", "[SYSTEM] " \o msg.content)>>
    ELSE IF msg.role = USER THEN <<Content("user", msg.content)>>
    ELSE IF msg.role = ASSISTANT THEN <<Content("model", msg.content)>>
    ELSE IF msg.role = TOOL THEN <<Content("model", Slice(msg.content, 0, Min({16, Len(msg.content)})))>>
    ELSE <<>>

\* one turn of the loop of lines 54-82: what one message adds to contents;
\* a role that matches no branch adds nothing
Chat_RenderOne(msg) ==
    IF msg.role = SYSTEM THEN <<Content("user", "[SYSTEM] " \o msg.content)>>
    ELSE IF msg.role = USER THEN <<Content("user", msg.content)>>
    ELSE IF msg.role = ASSISTANT THEN <<Content("model", msg.content)>>
    ELSE IF msg.role = TOOL THEN <<Content("model", msg.content)>>
    ELSE <<>>

RECURSIVE Chat_Render(_)
Chat_Render(log) ==
    IF log = <<>> THEN <<>>
    ELSE Chat_RenderOne(Head(log)) \o Chat_Render(Tail(log))

\* _convert_messages_to_content: the list it returns and self.messages as
\* it leaves it. Part.from_text does not raise on a str, and every content
\* in the log is one, so the except clause (return []) is not entered.
Chat_Convert(log) ==
    [contents |-> Returned(Chat_Render(log)), messages |-> log]

Session_RenderOne_ToolAsUser(msg) ==
    Content(IF msg.role = ASSISTANT THEN "model" ELSE "user",
            (IF msg.role = SYSTEM THEN "[SYSTEM] " ELSE "") \o msg.content)

Session_RenderOne_PrefixAll(msg) ==
    Content(IF msg.role \in {SYSTEM, USER} THEN "user" ELSE "model",
            "[SYSTEM] " \o msg.content)

\* the element of the list comprehension of session.py:46-60
Session_RenderOne(msg) ==
    Content(IF msg.role \in {SYSTEM, USER} THEN "user" ELSE "model",
            (IF msg.role = SYSTEM THEN "[SYSTEM] " ELSE "") \o msg.content)

Session_Convert_InPlace(log) ==
    [contents |-> Returned([i \in 1..Len(log) |-> Session_RenderOne(log[i])]),
     messages |-> [i \in 1..Len(log) |->
                      Message(log[i].role, Session_RenderOne(log[i]).text)]]

\* convert_to_gemini_content: the list it returns and self._messages as it
\* leaves it
Session_Convert(log) ==
    [contents |-> Returned([i \in 1..Len(log) |-> Session_RenderOne(log[i])]),
     messages |-> log]

\* no list has been rendered yet
NoContents == [kind |-> "none", value |-> <<>>]

(***************************************************************************)
(* InMemoryChatSession's list of messages and the copy it hands out.       *)
(***************************************************************************)
Session_Appended_Front(log, message) == <<message>> \o log

\* self._messages.append(message)
Session_Appended(log, message) == Append(log, message)

\* self._messages.copy(): a new list of the same Message objects. An element
\* is the position in the store of the object it refers to; 0 is a Message
\* the caller made itself.
Session_Copy(log) == [i \in 1..Len(log) |-> i]

\* Message is a plain dataclass: assigning to a field of an object changes
\* that object for every list that holds it
FieldAssigned(log, ref, field, value) ==
    IF ref = 0 THEN log
    ELSE IF field = "role" THEN [log EXCEPT ![ref].role = value]
    ELSE [log EXCEPT ![ref].content = value]

\* the messages a caller hands to add_message
AddedMessages ==
    {Message(USER, "hello"), Message(ASSISTANT, "hi"),
     Message(TOOL, "1 row"), Message(UnknownRole, "hello")}

\* the assignments a caller makes to an element of the list it holds
FieldEdits == {<<"role", UnknownRole>>, <<"content", "edited">>}

(***************************************************************************)
(* The tool executors.                                                     *)
(***************************************************************************)
NoOutputText == "Tool executed successfully (no output)"

\* Chat._execute_tool_call without a recorded session: no remote call
Chat_NoSessionResult == Returned("Error: No active MCP session")

Chat_ToolResult_NoCatch(tool_name, outcome) ==
    IF outcome.kind = "empty" THEN Returned(NoOutputText)
    ELSE IF outcome.kind = "text" THEN Returned(outcome.text)
    ELSE IF outcome.kind = "nontext"
         THEN Returned("Tool " \o tool_name
                       \o " executed but returned unexpected content type")
    ELSE Raised(outcome.text)

\* Chat._execute_tool_call once session.call_tool has answered
Chat_ToolResult(tool_name, outcome) ==
    IF outcome.kind = "empty" THEN Returned(NoOutputText)
    ELSE IF outcome.kind = "text" THEN Returned(outcome.text)
    ELSE IF outcome.kind = "nontext"
         THEN Returned("Tool " \o tool_name
                       \o " executed but returned unexpected content type")
    ELSE Returned("Error executing tool " \o tool_name \o ": " \o outcome.text)

MCP_ToolResult_EmptyAsText(tool_name, outcome) ==
    IF outcome.kind \in {"empty", "text"} THEN Returned(outcome.text)
    ELSE IF outcome.kind = "nontext"
         THEN Returned("Tool " \o tool_name
                       \o " executed but returned unexpected content type")
    ELSE Returned("Error executing tool " \o tool_name \o ": " \o outcome.text)

\* MCPToolExecutor.execute_tool once session.call_tool has answered
MCP_ToolResult(tool_name, outcome) ==
    IF outcome.kind = "empty" THEN Returned(NoOutputText)
    ELSE IF outcome.kind = "text" THEN Returned(outcome.text)
    ELSE IF outcome.kind = "nontext"
         THEN Returned("Tool " \o tool_name
                       \o " executed but returned unexpected content type")
    ELSE Returned("Error executing tool " \o tool_name \o ": " \o outcome.text)

\* One invocation of a tool executor: the remote calls it has issued, the
\* remote outcome and what it handed back to its caller.
IdleExec ==
    [state |-> "idle", tool |-> "", args |-> {}, calls |-> 0,
     outcome |-> NoOutcome, result |-> NoReturn]

\* await session.call_tool(tool_name, arguments): one request on the wire
IssueRemoteCall(tool_name, arguments) ==
    [state |-> "awaiting", tool |-> tool_name, args |-> arguments, calls |-> 1,
     outcome |-> NoOutcome, result |-> NoReturn]

\* the invocation that found no session and returned at once
RefusedExec(tool_name, arguments) ==
    [state |-> "done", tool |-> tool_name, args |-> arguments, calls |-> 0,
     outcome |-> NoOutcome, result |-> Chat_NoSessionResult]

FinishedExec_Retry(ex, outcome, result) ==
    [ex EXCEPT !.state = "done", !.outcome = outcome, !.result = result,
               !.calls = IF outcome.kind = "raise" THEN @ + 1 ELSE @]

\* the invocation once the remote call has answered; nothing is re-sent
FinishedExec(ex, outcome, result) ==
    [ex EXCEPT !.state = "done", !.outcome = outcome, !.result = result]

(***************************************************************************)
(* The token-mode command parser (Chat._parse_and_execute_commands).       *)
(***************************************************************************)
NoCommand ==
    [name |-> "none", tool |-> "", args |-> {}, label |-> "", prompt |-> ""]

\* the text after the token up to the end of that line, stripped
LinePayload(response_text, token) ==
    LET start == Find(response_text, token, 0) + Len(token)
        nl    == Find(response_text, "\n", start)
        end   == IF nl = -1 THEN Len(response_text) ELSE nl
    IN  Strip(Slice(response_text, start, end))

\* the if / elif chain over the three tokens, in the order of the code
Command(response_text) ==
    IF Contains(response_text, "GET_SCHEMA")
    THEN [name |-> "GET_SCHEMA", tool |-> "get_schema", args |-> {},
          label |-> "Database Schema:\n",
          prompt |-> "Now please answer the original question using this schema information."]
    ELSE IF Contains(response_text, "EXECUTE_SQL:")
    THEN [name |-> "EXECUTE_SQL", tool |-> "query_data",
          args |-> {<<"sql", LinePayload(response_text, "EXECUTE_SQL:")>>},
          label |-> "SQL Query Result:\n",
          prompt |-> "Please provide a summary and analysis of these results."]
    ELSE IF Contains(response_text, "ANALYZE_TABLE:")
    THEN [name |-> "ANALYZE_TABLE", tool |-> "analyze_table",
          args |-> {<<"table_name",
                      LinePayload(response_text, "ANALYZE_TABLE:")>>},
          label |-> "Table Analysis:\n",
          prompt |-> "Please provide insights based on this table analysis."]
    ELSE NoCommand

PlainAnswer_Stripped(response_text) == Strip(response_text)

\* the else branch: no special command, the original response
PlainAnswer(response_text) == response_text

ToolContext_UserFirst(cmd, result) ==
    <<Message(USER, cmd.prompt), Message(TOOL, cmd.label \o result)>>

ToolContext_ToolOnly(cmd, result) ==
    <<Message(TOOL, cmd.label \o result)>>

\* the two messages appended once the tool has answered
ToolContext(cmd, result) ==
    <<Message(TOOL, cmd.label \o result), Message(USER, cmd.prompt)>>

\* the text used when the follow-up response has no text
Fallback(cmd, result) ==
    IF cmd.name = "GET_SCHEMA" THEN "Schema retrieved successfully"
    ELSE IF cmd.name = "EXECUTE_SQL"
         THEN "SQL executed successfully:\n" \o result
    ELSE "Table analyzed successfully:\n" \o result

\* the parser's own except clause
ParserError(msg) == "Error parsing/executing commands: " \o msg

FollowupAnswer_Fallback(cmd, result, outcome) ==
    IF outcome.kind = "raise" THEN ParserError(outcome.text)
    ELSE Fallback(cmd, result)

\* what the parser returns after the follow-up model call
FollowupAnswer(cmd, result, outcome) ==
    IF outcome.kind = "raise" THEN ParserError(outcome.text)
    ELSE IF outcome.text # "" THEN outcome.text
    ELSE Fallback(cmd, result)

(***************************************************************************)
(* The message processors (client/processors.py).                          *)
(***************************************************************************)
ProcessorNames == {"schema", "sql", "analysis"}

\* can_handle of the three processors
CanHandle(p, message) ==
    IF p = "schema" THEN Contains(Upper(message), "GET_SCHEMA")
    ELSE IF p = "sql" THEN SqlSearch(message).matched
    ELSE AnalysisSearch(message).matched

NoRequest(text) ==
    [call |-> FALSE, tool |-> "", args |-> {}, label |-> "", text |-> text]

\* what process() asks of the tool executor, or the text it returns
\* without asking
ProcRequest(p, message) ==
    IF p = "schema"
    THEN [call |-> TRUE, tool |-> "get_schema", args |-> {},
          label |-> "Database Schema:\n", text |-> ""]
    ELSE IF p = "sql"
    THEN IF ~SqlSearch(message).matched
         THEN NoRequest("No valid SQL query found")
         ELSE [call |-> TRUE, tool |-> "query_data",
               args |-> {<<"sql", Strip(SqlSearch(message).group)>>},
               label |-> "SQL Query Result:\n", text |-> ""]
    ELSE IF ~AnalysisSearch(message).matched
         THEN NoRequest("No valid table name found")
         ELSE [call |-> TRUE, tool |-> "analyze_table",
               args |-> {<<"table_name", Strip(AnalysisSearch(message).group)>>},
               label |-> "Table Analysis:\n", text |-> ""]

\* the text process() returns once execute_tool has ended
ProcAnswer(p, label, result) ==
    IF result.kind = "returned" THEN label \o result.value
    ELSE IF p = "schema" THEN "Error retrieving schema: " \o result.value
    ELSE IF p = "sql" THEN "Error executing SQL: " \o result.value
    ELSE "Error analyzing table: " \o result.value

\* the processor call in hand: which processor, on which message, what
\* can_handle answered, what process returned
IdleProc ==
    [state |-> "idle", name |-> "", message |-> "", handles |-> FALSE,
     label |-> "", result |-> ""]

(***************************************************************************)
(* process_query's own exits.                                              *)
(***************************************************************************)
\* `if not response.text`: returned before anything is appended
EmptyModelReturn == Returned("No response generated from the AI model")

QueryFailure_Reraise(msg) == Raised(msg)

\* the outermost except clause of process_query
QueryFailure(msg) == Returned("Error processing query: " \o msg)

(***************************************************************************)
(* State.                                                                  *)
(***************************************************************************)
(***************************************************************************)
(* Chat.run: the handshake, the tool listing, the ways out.                *)
(***************************************************************************)
\* wait_for(session.initialize(), timeout=30.0)
InitializeTimeout == 30
\* ChatConfig.session_timeout
SessionTimeout == 15

\* session.initialize(): how it would end and after how many seconds
Handshakes ==
    {[ends |-> e, secs |-> d] : e \in {"ok", "fault"}, d \in {5, 20, 40}}

\* wait_for: TimeoutError once the timeout has passed, else initialize's own
\* outcome
WaitFor(h) == IF h.secs > InitializeTimeout THEN "timeout" ELSE h.ends

\* session.list_tools(): a catalog, an empty catalog, or an exception
Listings == {"tools", "empty", "raise"}

\* the value _get_available_tools returns
ToolsAvailable(listing) == listing = "tools"

Warned_Never(tools_available) == FALSE

\* lines 346-349: logger.warning("No tools available ...")
Warned(tools_available) == ~tools_available

\* what input() raises instead of returning a line
InputFaults == {"KeyboardInterrupt", "EOFError", "CancelledError"}

LoopAfter_AnyBreaks(raised) ==
    IF raised = "CancelledError" THEN "propagate" ELSE "break"

\* the except clauses of chat_loop: KeyboardInterrupt leaves the loop, an
\* Exception is printed and the loop goes on, anything else propagates
LoopAfter(raised) ==
    IF raised = "KeyboardInterrupt" THEN "break"
    ELSE IF raised = "EOFError" THEN "continue"
    ELSE "propagate"

ChannelAfter_LeakOnRaise(how, channel) ==
    IF how \in {"exit", "interrupt"} THEN 0 ELSE channel

\* leaving the two `async with` blocks closes the ClientSession and the
\* stdio channel, however the block is left
ChannelAfter(how, channel) == 0

(***************************************************************************)
(* The web UI's per-query session (app.py, process_user_input).            *)
(***************************************************************************)
\* Chat.process_query(self, query): the parameters after self
QueryParams == 1

\* calling process_query with these positional arguments
CallProcessQuery(args) ==
    IF Len(args) = QueryParams THEN "accepted" ELSE "TypeError"

\* lines 74-76: the text returned for an exception (after a cross-mark
\* emoji and a space, left out here)
WebError(msg) == Returned("Error: " \o msg)

IdleWeb == [pc |-> "idle", channel |-> 0, ret |-> NoReturn]

\* init_session_state: st.session_state.history and .is_processing; `run`
\* is where the script stands: "idle" (a run has ended and the page waits
\* for a widget event), "rerun" (st.rerun() was called: the next run is
\* due) or "sending" (a run is blocked in send_message)
NewUi == [history |-> <<>>, is_processing |-> FALSE, run |-> "idle"]

\* what the user can have typed into the text input when Send is pressed
UiTexts == {"", "  ", "show me the schema"}

\* the condition of the processing block (lines 152-154)
MustProcess(u) ==
    /\ u.is_processing
    /\ u.history # <<>>
    /\ u.history[Len(u.history)] = "user"

(***************************************************************************)
(* The structured-mode client (client.py at the repository root).          *)
(***************************************************************************)
\* response.content of messages.create: a sequence of parts, 0 a text block
\* and n > 0 the tool_use block with id n
Turns == {<<0>>, <<1>>, <<1, 2>>, <<0, 1, 0, 2>>}

\* what the first model call, list_tools included, can end with
TurnOutcomes == {[kind |-> "turn", parts |-> t] : t \in Turns}
                    \cup {[kind |-> "raise", parts |-> <<>>]}

\* session.call_tool: a result whose first content item has text or has
\* none, a result without content, or an exception
CallOutcomes == {"text", "nontext", "empty", "raise"}

\* the follow-up messages.create: res.content[0] is a text block or the
\* tool_use block with id 9, res.content is empty, or the call raises
FollowupOutcomes == {"text", "tool_use", "empty", "raise"}
FollowupToolId == 9

\* the tool_use ids of a turn, in the order of its parts
ToolIds(parts) == SelectSeq(parts, LAMBDA part : part > 0)

StructMessage(role, kind, ref) == [role |-> role, kind |-> kind, ref |-> ref]

\* process_query, chat_loop or run() left by an exception: run() has no
\* handler, so under chat_loop the program is over
Struct_Raise(c) ==
    [c EXCEPT !.ret = "raised", !.inflight = 0,
              !.pc = IF c.via = "loop" THEN "ended" ELSE "idle"]

\* the loop of lines 44-53 from part `from` on: text blocks are collected,
\* at the first tool_use block session.call_tool is awaited; after the last
\* part process_query returns None
Struct_Advance(c, from) ==
    LET tools == {j \in from..Len(c.turn) : c.turn[j] > 0}
    IN  IF tools = {}
        THEN [c EXCEPT !.pc = "idle", !.at = 0, !.ret = "returned"]
        ELSE [c EXCEPT !.pc = "awaitTool", !.at = Min(tools),
                       !.invoked = Append(@, c.turn[Min(tools)]),
                       !.inflight = @ + 1]

\* lines 53-74 once call_tool has returned: the assistant message with the
\* parts so far is appended, then the tool_result, whose content reads
\* result.content[0], then the model is called again
Struct_AfterTool(c, outcome) ==
    IF outcome = "raise" THEN Struct_Raise(c)
    ELSE IF ~c.isList THEN Struct_Raise(c)
    ELSE LET withUse == Append(c.messages,
                               StructMessage("assistant", "parts", c.turn[c.at]))
         IN  IF outcome = "empty"
             THEN Struct_Raise([c EXCEPT !.messages = withUse])
             ELSE [c EXCEPT !.messages =
                               Append(withUse, StructMessage("user", "tool_result",
                                                             c.turn[c.at])),
                            !.inflight = 0,
                            !.modelCalls = @ + 1,
                            !.pc = "awaitFollowup"]

\* lines 75-81 and the rest of the loop: the text of res.content[0], or ""
\* when that block has no text, is appended as the assistant's message
Struct_AfterFollowup(c, outcome) ==
    IF outcome \in {"raise", "empty"} THEN Struct_Raise(c)
    ELSE Struct_Advance(
             [c EXCEPT !.messages = Append(@, StructMessage("assistant", "text", 0)),
                       !.askedLater = IF outcome = "tool_use"
                                      THEN @ \cup {FollowupToolId} ELSE @],
             c.at + 1)

\* Chat(): `messages` is what the class body binds it to
NewStruct(isList, via) ==
    [isList |-> isList, via |-> via, messages |-> <<>>, pc |-> "idle",
     turn |-> <<>>, at |-> 0, invoked |-> <<>>, inflight |-> 0,
     modelCalls |-> 0, askedLater |-> {}, startLen |-> 0, ret |-> "none",
     listings |-> 0]

\* a new process_query call: the per-call state is reset, and the call
\* opens with session.list_tools() (lines 27-34)
Struct_Begin(c, log) ==
    [c EXCEPT !.messages = log, !.pc = "awaitModel", !.turn = <<>>, !.at = 0,
              !.invoked = <<>>, !.inflight = 0, !.modelCalls = 1,
              !.askedLater = {}, !.startLen = Len(log), !.ret = "none",
              !.listings = @ + 1]

(***************************************************************************)
(* Two objects side by side: two Chat objects, or two                      *)
(* InMemoryChatSession objects. A list lives at an address of the heap and *)
(* an object holds the address of its message list.                        *)
(***************************************************************************)
NewLogRef_SharedDefault(heap) == 1

\* Chat: field(default_factory=lambda: [Message(SYSTEM, ...)]);
\* InMemoryChatSession.__init__: self._messages = [Message(SYSTEM, ...)].
\* Each construction evaluates a list display: a new list at a new address
NewLogRef(heap) == Len(heap) + 1

PairObject(ref) ==
    [ref |-> ref, pc |-> "idle", cmd |-> NoCommand, result |-> ""]

\* the two objects constructed one after the other; solo[i] is the log of
\* object i as it is when object i is the only object there is
NewPair(kind) ==
    LET ref1  == NewLogRef(<<>>)
        heap1 == [a \in 1..ref1 |-> SeedMessages]
        ref2  == NewLogRef(heap1)
        heap2 == [a \in 1..Max({ref1, ref2}) |-> SeedMessages]
    IN  [kind |-> kind, heap |-> heap2,
         obj  |-> <<PairObject(ref1), PairObject(ref2)>>,
         solo |-> <<SeedMessages, SeedMessages>>]

\* self.messages.append(...) / self._messages.append(...) on object i
PairAppend(pr, i, msgs) ==
    [pr EXCEPT !.heap[pr.obj[i].ref] = @ \o msgs,
               !.solo[i] = @ \o msgs]

\* the query each of the two callers sends
PairQueries == <<"list the tables", "count the users">>

PairResponses ==
    {o \in FirstResponses :
        o.kind = "raise" \/ o.text \in {"The answer is 42.\n", "GET_SCHEMA"}}

PairToolOutcomes == {o \in RemoteOutcomes : o.kind \in {"text", "raise"}}

PairFollowups == {o \in FollowupResponses : o.text \in {"Here is the summary."}}

(***************************************************************************)
(* The query_data tool of the server (main/server.py).                     *)
(***************************************************************************)
SecurityWarning == "Security Warning: Potentially dangerous operation blocked."

\* the list of the security check, as written
DangerousPatterns == {"DROP TABLE", "DROP DATABASE", "DELETE FROM sqlite_master"}

\* the security check: sql.strip().upper() is searched for each pattern
IsDangerous(sql) ==
    LET sql_upper == Upper(Strip(sql))
    IN  \E dangerous \in DangerousPatterns : Contains(sql_upper, dangerous)

\* the statements a caller passes
SqlStatements ==
    {"SELECT 1", "DELETE FROM sample_data", "drop table sample_data",
     " Drop Database main", "DELETE FROM sqlite_master",
     "delete from SQLITE_MASTER"}

\* database.db: whether the file exists, its tables and the rows of
\* sample_data; the statement of the last call, what the call returned and
\* whether it reached cursor.execute; `was` is the database before the call
NoDb == [exists |-> FALSE, tables |-> {}, rows |-> 0]

SampleDb == [exists |-> TRUE, tables |-> {"sample_data"}, rows |-> 5]

NewServer(database) ==
    [db |-> database, was |-> database, sql |-> "", ret |-> "", executed |-> FALSE]

\* ensure_database_exists: a missing file is created with the sample table
\* when the directory allows it
EnsureDatabaseExists(database, creatable) ==
    IF database.exists THEN [ok |-> TRUE, db |-> database]
    ELSE IF creatable THEN [ok |-> TRUE, db |-> SampleDb]
    ELSE [ok |-> FALSE, db |-> database]

\* cursor.execute(sql) and what follows it, for the statements above as
\* SQLite answers them: the schema table cannot be modified, DROP DATABASE
\* is no SQLite statement
Execute(database, sql) ==
    LET sql_upper == Upper(Strip(sql))
    IN  IF StartsWith(sql_upper, "SELECT")
        THEN [db |-> database, ret |-> "Query results (1 rows):\n\n| 1 |\n"]
        ELSE IF StartsWith(sql_upper, "DROP TABLE")
        THEN [db |-> [database EXCEPT !.tables = {}, !.rows = 0],
              ret |-> "Query executed successfully. -1 rows affected."]
        ELSE IF StartsWith(sql_upper, "DROP DATABASE")
        THEN [db |-> database, ret |-> "SQL Error: near \"Database\": syntax error"]
        ELSE IF StartsWith(sql_upper, "DELETE FROM SQLITE_MASTER")
        THEN [db |-> database,
              ret |-> "SQL Error: table sqlite_master may not be modified"]
        ELSE [db |-> [database EXCEPT !.rows = 0],
              ret |-> "Query executed successfully. "
                        \o (IF database.rows = 5 THEN "5" ELSE "0")
                        \o " rows affected."]

\* query_data(sql)
QueryData(database, sql, creatable) ==
    LET ensured == EnsureDatabaseExists(database, creatable)
    IN  IF ~ensured.ok
        THEN [db |-> ensured.db, ret |-> "Error: Database is not accessible",
              executed |-> FALSE]
        ELSE IF IsDangerous(sql)
        THEN [db |-> ensured.db, ret |-> SecurityWarning, executed |-> FALSE]
        ELSE LET done == Execute(ensured.db, sql)
             IN  [db |-> done.db, ret |-> done.ret, executed |-> TRUE]

(***************************************************************************)
(* The CLI entry point (run.py, main).                                     *)
(***************************************************************************)
\* os.getenv("GOOGLE_API_KEY"): "none" is None, the variable is not set
ApiKeys == {"none", "", "AIza-key"}

KeyMissing_UnsetOnly(api_key) == api_key = "none"

\* `if not api_key`
KeyMissing(api_key) == api_key = "none" \/ api_key = ""

\* test_server_connectivity(): False when src/main/server.py does not exist
TestServerConnectivity(server_file_exists) == server_file_exists

\* main() up to `await chat.run()`: the key check, then the server check
MainOutcome(api_key, server_file_exists) ==
    IF KeyMissing(api_key)
    THEN [pc |-> "failed", error |-> "GOOGLE_API_KEY not found in environment variables"]
    ELSE IF ~TestServerConnectivity(server_file_exists)
    THEN [pc |-> "failed", error |-> "Server connectivity test failed"]
    ELSE [pc |-> "running", error |-> ""]

\* main() has not been started (or this is not the CLI)
NoCli == [pc |-> "none", key |-> "none", file |-> FALSE, error |-> ""]

\* no run() is under way
NoRun == [handshake |-> 0, catalog |-> "none", warned |-> FALSE]

VARIABLES
    deployment,      \* which object this behaviour exercises
    messages,        \* Chat.messages
    session,         \* Chat.session: 0 is None, n the session of the n-th run
    pc,              \* where process_query stands
    cmd,             \* the command the parser found in the first response
    modelCalls,      \* generate_content calls of the current query
    toolInvocations, \* _execute_tool_call calls of the current query
    first,           \* what the first model call answered
    follow,          \* what the follow-up model call answered
    startLen,        \* len(messages) when the current query was called
    ret,             \* how the last process_query ended
    exec,            \* the tool executor's current or last invocation
    runPc,           \* where Chat.run stands
    runs,            \* how many times run() was entered
    live,            \* the session whose channel is open (0: none)
    runInfo,         \* the run() under way: handshake seconds, catalog
    proc,            \* the message processor call in hand
    web,             \* the web UI's process_user_input call
    cli,             \* run.py main(): its environment and where it stands
    struct,          \* the structured-mode Chat and its process_query call
    pair,            \* two objects of one class and the heap their lists live in
    ui,              \* the web UI: st.session_state and the script's position
    server,          \* main/server.py: database.db and the last query_data call
    contents,        \* the list the content adapter returned last
    store,           \* InMemoryChatSession._messages
    snapshot,        \* the list a caller holds from get_messages
    callerEdits,     \* how often the caller has edited that list
    lastOp           \* the last operation performed

chatVars == <<messages, pc, cmd, modelCalls, toolInvocations, first, follow,
              startLen, ret, exec, contents>>
runVars  == <<session, runPc, runs, live, runInfo>>
sessVars == <<store, snapshot, callerEdits>>
moreVars == <<pair, ui, server>>
extVars  == <<web, cli, struct, moreVars>>
vars     == <<deployment, chatVars, runVars, proc, sessVars, extVars, lastOp>>

\* the Chat object is exercised: on its own, or by main() once it has
\* called chat.run()
InChat == deployment \in {"chat", "cli"}

ExitWords_NoShortcut == {"quit", "exit", "bye"}

\* chat_loop, line 311
ExitWords == {"quit", "exit", "bye", "q"}

\* chat_loop, lines 307-313: what becomes of each line input() can return:
\* the stripped text, and whether the turn is skipped, ends the loop or
\* goes to process_query
LineRead ==
    [line \in InputLines |->
        LET query == Strip(line)
        IN  [query |-> query,
             does  |-> IF query = "" THEN "skip"
                       ELSE IF Lower(query) \in ExitWords THEN "exit"
                       ELSE "query"]]

ArgMaps == {{}, {<<"sql", "SELECT 1">>}, {<<"table_name", "users">>}}

Init ==
    /\ deployment \in {"chat", "executor", "session", "web", "cli",
                       "structured", "pair", "server"}
    /\ messages = SeedMessages
    /\ session = 0
    /\ pc = "idle"
    /\ cmd = NoCommand
    /\ modelCalls = 0
    /\ toolInvocations = 0
    /\ first = NoOutcome
    /\ follow = NoOutcome
    /\ startLen = 1
    /\ ret = NoReturn
    /\ exec = IdleExec
    /\ runPc = "none"
    /\ runs = 0
    /\ live = 0
    /\ runInfo = NoRun
    /\ proc = IdleProc
    /\ web = IdleWeb
    /\ cli \in IF deployment = "cli"
               THEN {[pc |-> "start", key |-> k, file |-> f, error |-> ""] :
                        k \in ApiKeys, f \in BOOLEAN}
               ELSE {NoCli}
    /\ struct \in IF deployment = "structured"
                  THEN {NewStruct(l, v) : l \in BOOLEAN, v \in {"loop", "direct"}}
                  ELSE {NewStruct(FALSE, "direct")}
    /\ ui = NewUi
    /\ server \in IF deployment = "server"
                  THEN {NewServer(NoDb), NewServer(SampleDb)}
                  ELSE {NewServer(NoDb)}
    /\ pair \in IF deployment = "pair"
                THEN {NewPair("chat"), NewPair("session")}
                ELSE {NewPair("session")}
    /\ contents = NoContents
    /\ store = SeedMessages
    /\ snapshot = <<>>
    /\ callerEdits = 0
    /\ lastOp = "init"

(***************************************************************************)
(* Chat.process_query (token mode).                                        *)
(***************************************************************************)
\* lines 264-277: the User message is appended and the model is called
StartQuery(query) ==
    /\ Len(messages) + 4 <= MaxLog
    /\ LET sent == Chat_Convert(Append(messages, Message(USER, query)))
       IN  /\ messages' = sent.messages
           /\ contents' = sent.contents
    /\ pc' = "awaitModel"
    /\ modelCalls' = 1
    /\ toolInvocations' = 0
    /\ startLen' = Len(messages)
    /\ cmd' = NoCommand
    /\ first' = NoOutcome
    /\ follow' = NoOutcome
    /\ ret' = NoReturn
    /\ exec' = IdleExec

\* lines 285-286: the parser's answer is appended and returned
Answer(text) ==
    /\ messages' = Append(messages, Message(ASSISTANT, text))
    /\ ret' = Returned(text)
    /\ pc' = "idle"

\* lines 288-293: the outermost except clause
Fail(msg) ==
    LET out == QueryFailure(msg)
    IN  /\ messages' = IF out.kind = "returned"
                       THEN Append(messages, Message(ASSISTANT, out.value))
                       ELSE messages
        /\ ret' = out
        /\ pc' = "idle"

\* the parser once _execute_tool_call has ended as ex.result: the Tool
\* message and the follow-up User message are appended and the model is
\* called again; an exception out of the executor goes to the parser's
\* except clause.
AfterTool(c, ex) ==
    /\ exec' = ex
    /\ IF ex.result.kind = "raised"
       THEN /\ Answer(ParserError(ex.result.value))
            /\ UNCHANGED <<modelCalls, contents>>
       ELSE /\ LET sent == Chat_Convert(messages
                                        \o ToolContext(c, ex.result.value))
               IN  /\ messages' = sent.messages
                   /\ contents' = sent.contents
            /\ modelCalls' = modelCalls + 1
            /\ pc' = "awaitFollowup"
            /\ UNCHANGED ret

\* A direct call of process_query on a Chat that is not inside run()
\* (tests/conftest.py chat_client; the embedding named by the CLI surface).
PQ_Call(query) ==
    /\ deployment = "chat"
    /\ pc = "idle"
    /\ runPc = "none"
    /\ StartQuery(query)
    /\ lastOp' = "start"
    /\ UNCHANGED runVars
    /\ UNCHANGED <<deployment, proc, sessVars, extVars>>

\* The first generate_content call answers; lines 279-286 and the parser up
\* to its first suspension. The parser's own guard for an empty
\* response_text (line 139) is never met: process_query has returned by then.
PQ_ModelReturns(o) ==
    /\ InChat
    /\ pc = "awaitModel"
    /\ first' = o
    /\ lastOp' = "model"
    /\ UNCHANGED <<follow, startLen, runVars, deployment, proc, sessVars, extVars>>
    /\ IF o.kind = "raise"
       THEN /\ Fail(o.text)
            /\ UNCHANGED <<cmd, modelCalls, toolInvocations, exec, contents>>
       ELSE IF o.text = ""
       THEN /\ ret' = EmptyModelReturn
            /\ pc' = "idle"
            /\ UNCHANGED <<messages, cmd, modelCalls, toolInvocations, exec,
                           contents>>
       ELSE LET c == Command(o.text)
            IN  /\ cmd' = c
                /\ IF c.name = "none"
                   THEN /\ Answer(PlainAnswer(o.text))
                        /\ UNCHANGED <<modelCalls, toolInvocations, exec,
                                       contents>>
                   ELSE /\ toolInvocations' = toolInvocations + 1
                        /\ IF session = 0
                           THEN AfterTool(c, RefusedExec(c.tool, c.args))
                           ELSE /\ exec' = IssueRemoteCall(c.tool, c.args)
                                /\ pc' = "awaitTool"
                                /\ UNCHANGED <<messages, modelCalls, ret,
                                               contents>>

\* session.call_tool answers inside Chat._execute_tool_call. A session
\* whose channel is closed cannot answer: the call raises.
PQ_ToolReturns(o) ==
    /\ InChat
    /\ pc = "awaitTool"
    /\ (session # live) => o.kind = "raise"
    /\ AfterTool(cmd, FinishedExec(exec, o, Chat_ToolResult(exec.tool, o)))
    /\ lastOp' = "tool"
    /\ UNCHANGED <<cmd, toolInvocations, first, follow, startLen>>
    /\ UNCHANGED <<runVars, deployment, proc, sessVars, extVars>>

\* The follow-up generate_content call answers; its text is the answer.
PQ_FollowupReturns(o) ==
    /\ InChat
    /\ pc = "awaitFollowup"
    /\ follow' = o
    /\ Answer(FollowupAnswer(cmd, exec.result.value, o))
    /\ lastOp' = "followup"
    /\ UNCHANGED <<cmd, modelCalls, toolInvocations, first, startLen, exec,
                   contents>>
    /\ UNCHANGED <<runVars, deployment, proc, sessVars, extVars>>

(***************************************************************************)
(* Chat.run and Chat.chat_loop.                                            *)
(***************************************************************************)
\* lines 333-336: the subprocess channel and the ClientSession are entered
Run_Enter ==
    /\ InChat
    /\ deployment = "cli" => (cli.pc = "running" /\ runs = 0)
    /\ runPc = "none"
    /\ pc = "idle"
    /\ runs < MaxRuns
    /\ runs' = runs + 1
    /\ live' = runs + 1
    /\ runPc' = "initializing"
    /\ runInfo' = NoRun
    /\ lastOp' = "enter"
    /\ UNCHANGED <<session, chatVars, deployment, proc, sessVars, extVars>>

\* line 340: wait_for(session.initialize(), 30.0); a timeout (raised again
\* as Exception("MCP session initialization timeout")) or a fault goes out
\* through both context managers
Run_Initialize(h) ==
    /\ InChat
    /\ runPc = "initializing"
    /\ LET outcome == WaitFor(h)
       IN  IF outcome = "ok"
           THEN /\ runPc' = "listing"
                /\ runInfo' = [runInfo EXCEPT !.handshake = h.secs]
                /\ lastOp' = "initialize"
                /\ UNCHANGED live
           ELSE /\ runPc' = "none"
                /\ runInfo' = NoRun
                /\ live' = ChannelAfter(outcome, live)
                /\ lastOp' = outcome
    /\ UNCHANGED <<session, runs, chatVars, deployment, proc, sessVars, extVars>>

\* Chat._get_available_tools: the session is stored only after list_tools
\* has returned; run() warns when it answers False and goes on to the chat
\* loop in every case
Run_GetAvailableTools(listing) ==
    /\ InChat
    /\ runPc = "listing"
    /\ session' = IF listing = "raise" THEN session ELSE live
    /\ runInfo' = [runInfo EXCEPT
                      !.catalog = IF listing = "raise" THEN "failed" ELSE listing,
                      !.warned = Warned(ToolsAvailable(listing))]
    /\ runPc' = "loop"
    /\ lastOp' = "list"
    /\ UNCHANGED <<runs, live, chatVars, deployment, proc, sessVars, extVars>>

\* one turn of chat_loop: an empty line is skipped, an exit word ends the
\* loop (and with it run(), which closes the channel), anything else is
\* handed to process_query
ChatLoop_Read(line) ==
    /\ InChat
    /\ runPc = "loop"
    /\ pc = "idle"
    /\ LET read == LineRead[line]
       IN  IF read.does = "skip"
           THEN /\ lastOp' = "skip"
                /\ UNCHANGED <<chatVars, runVars>>
           ELSE IF read.does = "exit"
           THEN /\ runPc' = "none"
                /\ live' = ChannelAfter("exit", live)
                /\ runInfo' = NoRun
                /\ lastOp' = "exit"
                /\ UNCHANGED <<session, runs, chatVars>>
           ELSE /\ StartQuery(read.query)
                /\ lastOp' = "start"
                /\ UNCHANGED runVars
    /\ UNCHANGED <<deployment, proc, sessVars, extVars>>

\* input() raises instead of returning a line (lines 319-324)
ChatLoop_InputRaises(raised) ==
    /\ InChat
    /\ runPc = "loop"
    /\ pc = "idle"
    /\ LET how == LoopAfter(raised)
       IN  IF how = "continue"
           THEN UNCHANGED runVars
           ELSE /\ runPc' = "none"
                /\ live' = ChannelAfter(IF how = "break" THEN "interrupt"
                                        ELSE "cancelled", live)
                /\ runInfo' = NoRun
                /\ UNCHANGED <<session, runs>>
    /\ lastOp' = raised
    /\ UNCHANGED <<chatVars, deployment, proc, sessVars, extVars>>

(***************************************************************************)
(* The web UI's Clear History button (app.py).                             *)
(***************************************************************************)
ClearedLog_DropFirst(log) == SubSeq(log, 2, Len(log))

\* chat.messages[:1]
ClearedLog(log) == SubSeq(log, 1, 1)

ClearHistory ==
    /\ deployment = "chat"
    /\ pc = "idle"
    /\ runPc = "none"
    /\ messages' = ClearedLog(messages)
    /\ ret' = NoReturn
    /\ cmd' = NoCommand
    /\ first' = NoOutcome
    /\ follow' = NoOutcome
    /\ modelCalls' = 0
    /\ toolInvocations' = 0
    /\ exec' = IdleExec
    /\ contents' = NoContents
    /\ lastOp' = "clear"
    /\ UNCHANGED <<pc, startLen, runVars, deployment, proc, sessVars, extVars>>

(***************************************************************************)
(* MCPToolExecutor.execute_tool, constructed around a session.             *)
(***************************************************************************)
\* a caller invokes execute_tool itself
Exec_Call(tool_name, arguments) ==
    /\ deployment = "executor"
    /\ exec.state # "awaiting"
    /\ exec' = IssueRemoteCall(tool_name, arguments)
    /\ proc' = IdleProc
    /\ lastOp' = "execute"
    /\ UNCHANGED <<messages, pc, cmd, modelCalls, toolInvocations, first,
                   follow, startLen, ret, contents, runVars, deployment,
                   sessVars, extVars>>

\* session.call_tool answers; a processor waiting for execute_tool then
\* returns its labelled text
Exec_Returns(o) ==
    /\ deployment = "executor"
    /\ exec.state = "awaiting"
    /\ LET result == MCP_ToolResult(exec.tool, o)
       IN  /\ exec' = FinishedExec(exec, o, result)
           /\ proc' = IF proc.state = "awaiting"
                      THEN [proc EXCEPT !.state = "done",
                               !.result = ProcAnswer(proc.name, proc.label, result)]
                      ELSE proc
    /\ lastOp' = "executed"
    /\ UNCHANGED <<messages, pc, cmd, modelCalls, toolInvocations, first,
                   follow, startLen, ret, contents, runVars, deployment,
                   sessVars, extVars>>

(***************************************************************************)
(* The message processors over MCPToolExecutor.                            *)
(***************************************************************************)
\* can_handle(message)
Proc_CanHandle(p, message) ==
    /\ deployment = "executor"
    /\ exec.state # "awaiting"
    /\ proc' = [IdleProc EXCEPT !.state = "asked", !.name = p,
                                !.message = message,
                                !.handles = CanHandle(p, message)]
    /\ exec' = IdleExec
    /\ lastOp' = "can_handle"
    /\ UNCHANGED <<messages, pc, cmd, modelCalls, toolInvocations, first,
                   follow, startLen, ret, contents, runVars, deployment,
                   sessVars, extVars>>

\* process(message, tool_executor) up to its await of execute_tool
Proc_Process(p, message) ==
    /\ deployment = "executor"
    /\ exec.state # "awaiting"
    /\ LET rq == ProcRequest(p, message)
       IN  IF rq.call
           THEN /\ exec' = IssueRemoteCall(rq.tool, rq.args)
                /\ proc' = [IdleProc EXCEPT !.state = "awaiting", !.name = p,
                                            !.message = message,
                                            !.label = rq.label]
           ELSE /\ exec' = IdleExec
                /\ proc' = [IdleProc EXCEPT !.state = "done", !.name = p,
                                            !.message = message,
                                            !.result = rq.text]
    /\ lastOp' = "process"
    /\ UNCHANGED <<messages, pc, cmd, modelCalls, toolInvocations, first,
                   follow, startLen, ret, contents, runVars, deployment,
                   sessVars, extVars>>

(***************************************************************************)
(* InMemoryChatSession and the callers of its get_messages.                *)
(***************************************************************************)
\* add_message(message)
Session_AddMessage(message) ==
    /\ deployment = "session"
    /\ Len(store) < MaxStore
    /\ store' = Session_Appended(store, message)
    /\ contents' = NoContents
    /\ lastOp' = "add_message"
    /\ UNCHANGED <<snapshot, callerEdits, deployment, proc, runVars, extVars>>
    /\ UNCHANGED <<messages, pc, cmd, modelCalls, toolInvocations, first,
                   follow, startLen, ret, exec>>

\* get_messages()
Session_GetMessages ==
    /\ deployment = "session"
    /\ snapshot' = Session_Copy(store)
    /\ contents' = NoContents
    /\ lastOp' = "get_messages"
    /\ UNCHANGED <<store, callerEdits, deployment, proc, runVars, extVars>>
    /\ UNCHANGED <<messages, pc, cmd, modelCalls, toolInvocations, first,
                   follow, startLen, ret, exec>>

\* convert_to_gemini_content()
Session_ConvertToGeminiContent ==
    /\ deployment = "session"
    /\ LET out == Session_Convert(store)
       IN  /\ contents' = out.contents
           /\ store' = out.messages
    /\ lastOp' = "convert"
    /\ UNCHANGED <<snapshot, callerEdits, deployment, proc, runVars, extVars>>
    /\ UNCHANGED <<messages, pc, cmd, modelCalls, toolInvocations, first,
                   follow, startLen, ret, exec>>

\* the caller appends a Message of its own to the list it holds, or
\* removes the last element of it
Caller_EditsList(op) ==
    /\ deployment = "session"
    /\ Len(snapshot) >= 1
    /\ callerEdits < MaxEdits
    /\ callerEdits' = callerEdits + 1
    /\ snapshot' = IF op = "append" THEN Append(snapshot, 0)
                   ELSE SubSeq(snapshot, 1, Len(snapshot) - 1)
    /\ contents' = NoContents
    /\ lastOp' = "caller_list"
    /\ UNCHANGED <<store, deployment, proc, runVars, extVars>>
    /\ UNCHANGED <<messages, pc, cmd, modelCalls, toolInvocations, first,
                   follow, startLen, ret, exec>>

\* the caller assigns to a field of the k-th element of the list it holds
Caller_EditsElement(k, edit) ==
    /\ deployment = "session"
    /\ k \in 1..Len(snapshot)
    /\ callerEdits < MaxEdits
    /\ callerEdits' = callerEdits + 1
    /\ store' = FieldAssigned(store, snapshot[k], edit[1], edit[2])
    /\ contents' = NoContents
    /\ lastOp' = "caller_element"
    /\ UNCHANGED <<snapshot, deployment, proc, runVars, extVars>>
    /\ UNCHANGED <<messages, pc, cmd, modelCalls, toolInvocations, first,
                   follow, startLen, ret, exec>>

(***************************************************************************)
(* The web UI: one subprocess and one session per message sent.            *)
(***************************************************************************)
\* Send pressed (lines 141-149); the form is disabled while is_processing.
\* A text that is blank after strip() changes nothing.
Ui_Submit(user_input) ==
    /\ deployment = "web"
    /\ ui.run = "idle"
    /\ ~ui.is_processing
    /\ Len(ui.history) + 2 <= MaxUiHistory
    /\ IF Strip(user_input) = ""
       THEN /\ ui' = ui
            /\ lastOp' = "ui_blank"
       ELSE /\ ui' = [history |-> Append(ui.history, "user"),
                      is_processing |-> TRUE, run |-> "rerun"]
            /\ lastOp' = "ui_submit"
    /\ UNCHANGED <<deployment, chatVars, runVars, proc, sessVars, web, cli,
                   struct, pair, server>>

\* Clear History pressed (lines 110-115): the button is never disabled. The
\* click starts a run of the script with the button set, also when a run
\* is due or has just begun; a click made while a run is blocked in
\* send_message is served once that run is over.
Ui_ClearHistory ==
    /\ deployment = "web"
    /\ ui.run \in {"idle", "rerun"}
    /\ ui' = [ui EXCEPT !.history = <<>>, !.run = "rerun"]
    /\ messages' = ClearedLog(messages)
    /\ lastOp' = "ui_clear"
    /\ UNCHANGED <<pc, cmd, modelCalls, toolInvocations, first, follow,
                   startLen, ret, exec, contents>>
    /\ UNCHANGED <<deployment, runVars, proc, sessVars, web, cli, struct, pair, server>>

\* a run of the script with no widget set that finds nothing to process
Ui_Rerun ==
    /\ deployment = "web"
    /\ ui.run = "rerun"
    /\ ~MustProcess(ui)
    /\ ui' = [ui EXCEPT !.run = "idle"]
    /\ lastOp' = "ui_rerun"
    /\ UNCHANGED <<deployment, chatVars, runVars, proc, sessVars, web, cli,
                   struct, pair, server>>

\* the processing block (lines 152-157) calls send_message ->
\* process_user_input: both `async with` blocks are entered
Web_SendMessage ==
    /\ deployment = "web"
    /\ web.pc = "idle"
    /\ ui.run = "rerun"
    /\ MustProcess(ui)
    /\ ui' = [ui EXCEPT !.run = "sending"]
    /\ web' = [pc |-> "initializing", channel |-> 1, ret |-> NoReturn]
    /\ lastOp' = "web_send"
    /\ UNCHANGED <<deployment, chatVars, runVars, proc, sessVars, cli, struct, pair, server>>

\* session.initialize() ends (no timeout is set here); then
\* chat_obj.process_query(session, user_query) is called, and whatever was
\* raised is turned into the returned text; back in the processing block
\* the answer is appended and the finally clause clears the flag and asks
\* for a rerun (lines 158-173)
Web_Initialize(outcome, query) ==
    /\ deployment = "web"
    /\ web.pc = "initializing"
    /\ LET called == CallProcessQuery(<<"session", query>>)
           how    == IF outcome = "fault" THEN "fault"
                     ELSE IF called = "TypeError" THEN "TypeError"
                     ELSE "return"
       IN  web' = [pc |-> "idle",
                   channel |-> ChannelAfter(how, web.channel),
                   ret |-> IF how = "fault" THEN WebError("connection closed")
                           ELSE IF how = "TypeError"
                           THEN WebError("Chat.process_query() takes 2 positional arguments but 3 were given")
                           ELSE NoReturn]
    /\ ui' = [history |-> Append(ui.history, "assistant"),
              is_processing |-> FALSE, run |-> "rerun"]
    /\ lastOp' = IF outcome = "fault" THEN "web_fault" ELSE "web_called"
    /\ UNCHANGED <<deployment, chatVars, runVars, proc, sessVars, cli, struct, pair, server>>

(***************************************************************************)
(* The CLI entry point.                                                    *)
(***************************************************************************)
\* main(): the checks, then Chat(...) and chat.run(); an exception is
\* logged and printed
Cli_Main ==
    /\ deployment = "cli"
    /\ cli.pc = "start"
    /\ LET out == MainOutcome(cli.key, cli.file)
       IN  cli' = [cli EXCEPT !.pc = out.pc, !.error = out.error]
    /\ lastOp' = "main"
    /\ UNCHANGED <<deployment, chatVars, runVars, proc, sessVars, web, struct, moreVars>>

(***************************************************************************)
(* The structured-mode client.                                             *)
(***************************************************************************)
\* one turn of chat_loop (lines 85-87): the query is appended to
\* self.messages and process_query is awaited. `messages` is bound in the
\* class body to dataclasses.field(...), and the class is no dataclass: as
\* written the attribute is that Field object, which has no append
\* (isList = FALSE); isList = TRUE is a Chat whose attribute holds a list.
Struct_ChatLoop_Read ==
    /\ deployment = "structured"
    /\ struct.via = "loop"
    /\ struct.pc = "idle"
    /\ struct.listings < MaxQueries
    /\ Len(struct.messages) + 7 <= MaxHistory
    /\ struct' = IF struct.isList
                 THEN Struct_Begin(struct,
                                   Append(struct.messages,
                                          StructMessage("user", "query", 0)))
                 ELSE Struct_Raise(struct)
    /\ lastOp' = "struct_read"
    /\ UNCHANGED <<deployment, chatVars, runVars, proc, sessVars, web, cli, moreVars>>

\* process_query(session, query) called on the object itself
Struct_Call ==
    /\ deployment = "structured"
    /\ struct.via = "direct"
    /\ struct.pc = "idle"
    /\ struct.listings < MaxQueries
    /\ Len(struct.messages) + 7 <= MaxHistory
    /\ struct' = Struct_Begin(struct, struct.messages)
    /\ lastOp' = "struct_call"
    /\ UNCHANGED <<deployment, chatVars, runVars, proc, sessVars, web, cli, moreVars>>

\* list_tools and the first messages.create answer (lines 27-44)
Struct_ModelReturns(o) ==
    /\ deployment = "structured"
    /\ struct.pc = "awaitModel"
    /\ struct' = IF o.kind = "raise" THEN Struct_Raise(struct)
                 ELSE Struct_Advance([struct EXCEPT !.turn = o.parts], 1)
    /\ lastOp' = "struct_model"
    /\ UNCHANGED <<deployment, chatVars, runVars, proc, sessVars, web, cli, moreVars>>

\* session.call_tool answers (line 50)
Struct_ToolReturns(o) ==
    /\ deployment = "structured"
    /\ struct.pc = "awaitTool"
    /\ struct' = Struct_AfterTool(struct, o)
    /\ lastOp' = "struct_tool"
    /\ UNCHANGED <<deployment, chatVars, runVars, proc, sessVars, web, cli, moreVars>>

\* the follow-up messages.create answers (line 69)
Struct_FollowupReturns(o) ==
    /\ deployment = "structured"
    /\ struct.pc = "awaitFollowup"
    /\ struct' = Struct_AfterFollowup(struct, o)
    /\ lastOp' = "struct_followup"
    /\ UNCHANGED <<deployment, chatVars, runVars, proc, sessVars, web, cli, moreVars>>

(***************************************************************************)
(* Two objects side by side.                                               *)
(***************************************************************************)
PairLog(i) == pair.heap[pair.obj[i].ref]

PairFrame ==
    UNCHANGED <<deployment, chatVars, runVars, proc, sessVars, web, cli, struct,
                ui, server>>

\* add_message(message) on InMemoryChatSession object i
Pair_AddMessage(i, message) ==
    /\ deployment = "pair"
    /\ pair.kind = "session"
    /\ Len(PairLog(i)) < MaxStore
    /\ pair' = PairAppend(pair, i, <<message>>)
    /\ lastOp' = "pair_add"
    /\ PairFrame

\* process_query on Chat object i: the User message is appended
Pair_StartQuery(i) ==
    /\ deployment = "pair"
    /\ pair.kind = "chat"
    /\ pair.obj[i].pc = "idle"
    /\ Len(PairLog(i)) + 4 <= MaxPairLog
    /\ pair' = [PairAppend(pair, i, <<Message(USER, PairQueries[i])>>)
                   EXCEPT !.obj[i].pc = "awaitModel",
                          !.obj[i].cmd = NoCommand,
                          !.obj[i].result = ""]
    /\ lastOp' = "pair_start"
    /\ PairFrame

\* the first model call of object i answers
Pair_ModelReturns(i, o) ==
    /\ deployment = "pair"
    /\ pair.obj[i].pc = "awaitModel"
    /\ pair' =
          IF o.kind = "raise"
          THEN [PairAppend(pair, i, <<Message(ASSISTANT, QueryFailure(o.text).value)>>)
                   EXCEPT !.obj[i].pc = "idle"]
          ELSE LET c == Command(o.text)
               IN  IF c.name = "none"
                   THEN [PairAppend(pair, i, <<Message(ASSISTANT, PlainAnswer(o.text))>>)
                            EXCEPT !.obj[i].pc = "idle"]
                   ELSE [pair EXCEPT !.obj[i].pc = "awaitTool",
                                     !.obj[i].cmd = c]
    /\ lastOp' = "pair_model"
    /\ PairFrame

\* session.call_tool of object i answers: the Tool message and the
\* follow-up User message are appended
Pair_ToolReturns(i, o) ==
    /\ deployment = "pair"
    /\ pair.obj[i].pc = "awaitTool"
    /\ LET result == Chat_ToolResult(pair.obj[i].cmd.tool, o).value
       IN  pair' = [PairAppend(pair, i, ToolContext(pair.obj[i].cmd, result))
                       EXCEPT !.obj[i].pc = "awaitFollowup",
                              !.obj[i].result = result]
    /\ lastOp' = "pair_tool"
    /\ PairFrame

\* the follow-up model call of object i answers
Pair_FollowupReturns(i, o) ==
    /\ deployment = "pair"
    /\ pair.obj[i].pc = "awaitFollowup"
    /\ pair' = [PairAppend(pair, i,
                           <<Message(ASSISTANT,
                                     FollowupAnswer(pair.obj[i].cmd,
                                                    pair.obj[i].result, o))>>)
                   EXCEPT !.obj[i].pc = "idle"]
    /\ lastOp' = "pair_followup"
    /\ PairFrame

(***************************************************************************)
(* The server's query_data tool.                                           *)
(***************************************************************************)
Db_QueryData(sql, creatable) ==
    /\ deployment = "server"
    /\ LET out == QueryData(server.db, sql, creatable)
       IN  server' = [db |-> out.db, was |-> server.db, sql |-> sql,
                      ret |-> out.ret, executed |-> out.executed]
    /\ lastOp' = "query_data"
    /\ UNCHANGED <<deployment, chatVars, runVars, proc, sessVars, web, cli,
                   struct, pair, ui>>

(***************************************************************************)
(* Specifications.                                                         *)
(***************************************************************************)
Next ==
    \/ \E q \in Queries : PQ_Call(q)
    \/ \E o \in FirstResponses : PQ_ModelReturns(o)
    \/ \E o \in RemoteOutcomes : PQ_ToolReturns(o)
    \/ \E o \in FollowupResponses : PQ_FollowupReturns(o)
    \/ Run_Enter
    \/ \E h \in Handshakes : Run_Initialize(h)
    \/ \E r \in Listings : Run_GetAvailableTools(r)
    \/ \E line \in InputLines : ChatLoop_Read(line)
    \/ \E e \in InputFaults : ChatLoop_InputRaises(e)
    \/ ClearHistory
    \/ \E t \in ToolNames, a \in ArgMaps : Exec_Call(t, a)
    \/ \E o \in RemoteOutcomes : Exec_Returns(o)
    \/ \E p \in ProcessorNames, t \in ResponseTexts : Proc_CanHandle(p, t)
    \/ \E p \in ProcessorNames, t \in ResponseTexts : Proc_Process(p, t)
    \/ \E m \in AddedMessages : Session_AddMessage(m)
    \/ Session_GetMessages
    \/ Web_SendMessage
    \/ Cli_Main
    \/ \E i \in 1..2, message \in AddedMessages : Pair_AddMessage(i, message)
    \/ \E i \in 1..2 : Pair_StartQuery(i)
    \/ \E i \in 1..2, o \in PairResponses : Pair_ModelReturns(i, o)
    \/ \E i \in 1..2, o \in PairToolOutcomes : Pair_ToolReturns(i, o)
    \/ \E i \in 1..2, o \in PairFollowups : Pair_FollowupReturns(i, o)
    \/ \E t \in UiTexts : Ui_Submit(t)
    \/ Ui_ClearHistory
    \/ Ui_Rerun
    \/ \E sql \in SqlStatements, creatable \in BOOLEAN :
          Db_QueryData(sql, creatable)
    \/ Struct_ChatLoop_Read
    \/ Struct_Call
    \/ \E o \in TurnOutcomes : Struct_ModelReturns(o)
    \/ \E o \in CallOutcomes : Struct_ToolReturns(o)
    \/ \E o \in FollowupOutcomes : Struct_FollowupReturns(o)
    \/ \E r \in {"ok", "fault"}, q \in Queries : Web_Initialize(r, q)
    \/ Session_ConvertToGeminiContent
    \/ \E op \in {"append", "remove"} : Caller_EditsList(op)
    \/ \E k \in 1..(MaxStore + MaxEdits), e \in FieldEdits :
          Caller_EditsElement(k, e)

Spec == Init /\ [][Next]_vars

\* every model call and every remote tool call eventually returns or raises
LiveSpec ==
    /\ Spec
    /\ WF_vars(\E o \in FirstResponses : PQ_ModelReturns(o))
    /\ WF_vars(\E o \in RemoteOutcomes : PQ_ToolReturns(o))
    /\ WF_vars(\E o \in FollowupResponses : PQ_FollowupReturns(o))
    /\ WF_vars(Ui_Rerun)
    /\ WF_vars(Web_SendMessage)
    /\ WF_vars(\E o \in {"ok", "fault"}, q \in Queries : Web_Initialize(o, q))

(***************************************************************************)
(* Vocabulary of the properties.                                           *)
(***************************************************************************)
\* a process_query call has returned or raised and the log is as it left it
Ended == deployment = "chat" /\ pc = "idle" /\ ret.kind # "none"

\* the messages the current or last process_query call has appended
Appended == SubSeq(messages, startLen + 1, Len(messages))

Roles(log) == [i \in 1..Len(log) |-> log[i].role]

AssistantCount(log) == Cardinality({i \in 1..Len(log) : log[i].role = ASSISTANT})

RECURSIVE ToolRounds(_)
ToolRounds(k) == IF k = 0 THEN <<>> ELSE <<TOOL, USER>> \o ToolRounds(k - 1)

CommandTokens == {"GET_SCHEMA", "EXECUTE_SQL:", "ANALYZE_TABLE:"}

HasToken(text) == \E tok \in CommandTokens : Contains(text, tok)

(***************************************************************************)
(* C1: every process_query call, on every path, has appended exactly one   *)
(* Assistant message by the time it returns, so an idle orchestrator never *)
(* has a log that ends with an unanswered User message.                    *)
(* The code returns "No response generated from the AI model" without      *)
(* appending anything when the model's response has no text.               *)
(***************************************************************************)
C1_OneAssistantPerCall ==
    /\ Ended => AssistantCount(Appended) = 1
    /\ (deployment = "chat" /\ pc = "idle")
          => messages[Len(messages)].role # USER

(***************************************************************************)
(* C2: process_query never raises to its caller; whatever the model call,  *)
(* the parser and the tool execution do, the call ends by returning a      *)
(* string.                                                                 *)
(***************************************************************************)
C2_NeverRaises ==
    /\ ret.kind # "raised"
    /\ Ended => (ret.kind = "returned" /\ ret.value \in STRING)

C2_Witness ==
    /\ Ended
    /\ first.kind = "raise"
    /\ ret = Returned("Error processing query: connection closed")

(***************************************************************************)
(* C3: the first message of the log is always the System seed; no          *)
(* sequence of process_query calls removes or replaces it, and Clear       *)
(* History leaves exactly one message, the System seed.                    *)
(***************************************************************************)
C3_SystemSeedFirst ==
    /\ Len(messages) >= 1
    /\ messages[1].role = SYSTEM
    /\ messages[1] = SeedMessages[1]
    /\ lastOp = "clear" => messages = SeedMessages

\* Clear History pressed after two queries had been processed
C3_Witness ==
    /\ lastOp = "clear"
    /\ startLen >= 3
    /\ messages = SeedMessages

(***************************************************************************)
(* C4: a successful process_query grows the log by exactly 2 messages      *)
(* (User, Assistant) when no tool call occurs and by 2 + 2k messages, in   *)
(* the order User, (Tool, follow-up User) k times, Assistant, when k tool  *)
(* calls occur; k is decided by the model's response alone (whether it     *)
(* carries a command token), not by the session or the tool's outcome.     *)
(* Successful: the model answered with text and no model call raised.      *)
(***************************************************************************)
Successful ==
    /\ Ended
    /\ ret.kind = "returned"
    /\ first.kind = "text" /\ first.text # ""
    /\ follow.kind # "raise"

C4_LogGrowth ==
    Successful =>
        /\ toolInvocations = (IF HasToken(first.text) THEN 1 ELSE 0)
        /\ Len(Appended) = 2 + 2 * toolInvocations
        /\ Roles(Appended) = <<USER>> \o ToolRounds(toolInvocations)
                                      \o <<ASSISTANT>>

\* a command run without a recorded session: no remote call, same growth
C4_Witness ==
    /\ Successful
    /\ toolInvocations = 1
    /\ exec.calls = 0
    /\ Len(Appended) = 4

(***************************************************************************)
(* C5: the tool executors (MCPToolExecutor.execute_tool and                *)
(* Chat._execute_tool_call) never raise: for every tool name, argument map *)
(* and remote behaviour they return a string, which is 'Tool executed      *)
(* successfully (no output)' exactly when the provider returned an empty   *)
(* result.                                                                 *)
(***************************************************************************)
C5_ExecutorReturnsString ==
    /\ exec.result.kind # "raised"
    /\ exec.state = "done" =>
          /\ exec.result.kind = "returned"
          /\ exec.result.value \in STRING
          /\ (exec.result.value = NoOutputText) <=> (exec.outcome.kind = "empty")

C5_Witness ==
    /\ deployment = "executor"
    /\ exec.state = "done"
    /\ exec.outcome.kind = "empty"
    /\ exec.result = Returned(NoOutputText)

(***************************************************************************)
(* C6: every failure outcome the tool executor returns (no usable session, *)
(* transport error, remote-side exception, unexpected result shape) is a   *)
(* string that begins with 'Error executing tool'.                         *)
(* The code answers 'Error: No active MCP session' and 'Tool <name>        *)
(* executed but returned unexpected content type' for two of them.         *)
(***************************************************************************)
\* the invocation ended without a usable payload
ExecFailed ==
    /\ exec.state = "done"
    /\ exec.outcome.kind \in {"none", "raise", "nontext"}

C6_FailurePrefix ==
    ExecFailed => StartsWith(exec.result.value, "Error executing tool")

C8_ToolFailureNotFatal ==
    (deployment = "chat" /\ exec.state = "done" /\ exec.outcome.kind = "raise")
    =>  /\ ret.kind # "raised"
        /\ modelCalls = 2
        /\ Len(Appended) >= 3
        /\ Appended[2] =
              Message(TOOL, cmd.label \o "Error executing tool " \o exec.tool
                                      \o ": " \o exec.outcome.text)
        /\ Appended[3].role = USER
        /\ pc \in {"awaitFollowup", "idle"}
        /\ pc = "idle" =>
              /\ follow.kind # "none"
              /\ ret.kind = "returned"
              /\ Len(Appended) = 4
              /\ Appended[4] = Message(ASSISTANT, ret.value)

C8_Witness ==
    /\ Ended
    /\ exec.outcome.kind = "raise"
    /\ cmd.name = "EXECUTE_SQL"
    /\ follow.kind = "text"
    /\ messages[Len(messages)] = Message(ASSISTANT, "Here is the summary.")

(***************************************************************************)
(* C9: a token-mode process_query is bounded: provided every model call    *)
(* and tool call eventually returns or raises, it terminates after at most *)
(* two model calls and at most one tool invocation, and the follow-up      *)
(* response is the final answer, not re-scanned for commands even when it  *)
(* carries a command token.                                                *)
(***************************************************************************)
C9_Bounded ==
    /\ [](/\ modelCalls <= 2
          /\ toolInvocations <= 1
          /\ (Ended /\ follow.kind = "text" /\ follow.text # "") =>
                /\ ret = Returned(follow.text)
                /\ messages[Len(messages)] = Message(ASSISTANT, follow.text)
                /\ modelCalls = 2
                /\ toolInvocations = 1
                /\ Len(Appended) = 4)
    /\ (pc # "idle") ~> (pc = "idle")

\* the follow-up carried EXECUTE_SQL: and was returned as it is
C9_Witness ==
    /\ Ended
    /\ follow.kind = "text"
    /\ HasToken(follow.text)
    /\ ret = Returned(follow.text)
    /\ toolInvocations = 1

(***************************************************************************)
(* C10: when the model's response carries no recognized command token,     *)
(* the parser returns the original text unchanged, issues no tool call,    *)
(* makes no further model call and appends no Tool or follow-up User       *)
(* message.                                                                *)
(***************************************************************************)
C10_NoTokenPassThrough ==
    (Ended /\ first.kind = "text" /\ first.text # "" /\ ~HasToken(first.text))
    =>  /\ ret = Returned(first.text)
        /\ toolInvocations = 0
        /\ exec = IdleExec
        /\ modelCalls = 1
        /\ follow = NoOutcome
        /\ Len(Appended) = 2
        /\ Appended[1].role = USER
        /\ Appended[2] = Message(ASSISTANT, first.text)

C10_Witness ==
    /\ Ended
    /\ first = [kind |-> "text", text |-> "The answer is 42.\n"]
    /\ ret = Returned("The answer is 42.\n")

(***************************************************************************)
(* Vocabulary of the command-detection properties.                         *)
(***************************************************************************)
\* the parser has looked at a response that carries text
Parsed == deployment = "chat" /\ first.kind = "text" /\ first.text # ""

\* a processor's process() has been entered on proc.message
Processing == deployment = "executor" /\ proc.state \in {"awaiting", "done"}

ToolOfToken(tok) ==
    IF tok = "GET_SCHEMA" THEN "get_schema"
    ELSE IF tok = "EXECUTE_SQL:" THEN "query_data"
    ELSE "analyze_table"

\* the command token that occurs earliest in the text
FirstToken(text) ==
    LET present == {tok \in CommandTokens : Contains(text, tok)}
    IN  CHOOSE tok \in present :
            \A other \in present : Find(text, tok, 0) <= Find(text, other, 0)

\* a non-empty run of word characters
IsIdentifier(text) ==
    /\ Len(text) >= 1
    /\ \A i \in 0..(Len(text) - 1) : IsWordChar(CharAt(text, i))

(***************************************************************************)
(* C11: command detection is case-insensitive for the token keyword: a     *)
(* response carrying get_schema, execute_sql: or analyze_table: in any     *)
(* letter case triggers the same tool as its upper-case form, in the       *)
(* orchestrator's parser as well as in the processors.                     *)
(* The processors upper-case the text or match with IGNORECASE; the        *)
(* parser of Chat tests `"GET_SCHEMA" in response_text` on the text as it  *)
(* came and takes 'get_schema' for a plain answer.                         *)
(***************************************************************************)
C11_CaseInsensitive ==
    /\ Parsed => cmd.tool = Command(Upper(first.text)).tool
    /\ (deployment = "executor" /\ proc.state = "asked")
          => proc.handles = CanHandle(proc.name, Upper(proc.message))
    /\ Processing
          => exec.tool = ProcRequest(proc.name, Upper(proc.message)).tool

(***************************************************************************)
(* C12: when one response carries several command tokens, exactly one      *)
(* command is executed and it is the one whose token comes first in the    *)
(* text: EXECUTE_SQL: on the first line and GET_SCHEMA on a later line     *)
(* executes query_data.                                                    *)
(* The parser's if / elif chain tests GET_SCHEMA first wherever it stands. *)
(***************************************************************************)
C12_FirstTokenWins ==
    (Parsed /\ HasToken(first.text)) =>
        /\ toolInvocations = 1
        /\ cmd.tool = ToolOfToken(FirstToken(first.text))

(***************************************************************************)
(* C13: for a response carrying 'EXECUTE_SQL:' the SQL handed to           *)
(* query_data is the text between the colon and the first following        *)
(* newline (or the end of the text), trimmed: 'EXECUTE_SQL: SELECT 1' and  *)
(* 'EXECUTE_SQL: SELECT 1\nExplanation text' both give 'SELECT 1'; the     *)
(* parser of Chat and SqlQueryProcessor agree, an empty payload line       *)
(* included.                                                               *)
(* SQL_PATTERN's \s* runs over the newline of an empty payload line, so    *)
(* the processor hands over the next line.                                 *)
(***************************************************************************)
C13_SqlPayload ==
    /\ (Parsed /\ first.text = "EXECUTE_SQL: SELECT 1")
          => cmd.args = {<<"sql", "SELECT 1">>}
    /\ (Parsed /\ first.text = "EXECUTE_SQL: SELECT 1\nExplanation text")
          => cmd.args = {<<"sql", "SELECT 1">>}
    /\ (Parsed /\ first.text = "EXECUTE_SQL:\nExplanation text")
          => cmd.args = {<<"sql", "">>}
    /\ (Processing /\ proc.name = "sql"
            /\ Contains(proc.message, "EXECUTE_SQL:"))
          => /\ exec.tool = "query_data"
             /\ exec.args = {<<"sql", LinePayload(proc.message, "EXECUTE_SQL:")>>}

(***************************************************************************)
(* C14: for a response carrying 'ANALYZE_TABLE:' the table_name handed to  *)
(* analyze_table is one bare identifier (word characters only), also when  *)
(* further words follow it on the line.                                    *)
(* ANALYSIS_PATTERN captures (\w+); the parser of Chat hands over the      *)
(* whole rest of the line.                                                 *)
(***************************************************************************)
C14_BareIdentifier ==
    /\ (Parsed /\ cmd.tool = "analyze_table")
          => \A kv \in cmd.args : kv[1] = "table_name" /\ IsIdentifier(kv[2])
    /\ (Processing /\ proc.name = "analysis" /\ exec.tool = "analyze_table")
          => \A kv \in exec.args : kv[1] = "table_name" /\ IsIdentifier(kv[2])

(***************************************************************************)
(* Vocabulary of the content-adapter and message-store properties.         *)
(***************************************************************************)
RecognizedRoles == {SYSTEM, USER, ASSISTANT, TOOL}

\* the wire role the mapping rule gives a recognized role
WireRole(role) == IF role \in {SYSTEM, USER} THEN "user" ELSE "model"

EndsWith(text, suffix) ==
    /\ Len(suffix) <= Len(text)
    /\ Slice(text, Len(text) - Len(suffix), Len(text)) = suffix

IsPrefix(a, b) == Len(a) <= Len(b) /\ SubSeq(b, 1, Len(a)) = a

\* `contents` is the rendering of the log as it stands: a model call of
\* process_query is pending, or convert_to_gemini_content has just returned
JustRendered ==
    \/ deployment = "chat" /\ pc # "idle"
    \/ deployment = "session" /\ lastOp = "convert"

RenderedLog == IF deployment = "chat" THEN messages ELSE store

(***************************************************************************)
(* C15: the content adapter maps every message one-to-one and in order:    *)
(* System and User messages get wire role 'user', Assistant and Tool       *)
(* messages wire role 'model', and the rendered list is as long as the     *)
(* log.                                                                    *)
(***************************************************************************)
C15_OneToOne ==
    JustRendered =>
        /\ contents.kind = "returned"
        /\ (\A i \in 1..Len(RenderedLog) :
               RenderedLog[i].role \in RecognizedRoles)
              => /\ Len(contents.value) = Len(RenderedLog)
                 /\ \A i \in 1..Len(RenderedLog) :
                       /\ contents.value[i].role = WireRole(RenderedLog[i].role)
                       /\ EndsWith(contents.value[i].text, RenderedLog[i].content)

\* the follow-up request of a second query: all four roles are in the log
C15_Witness ==
    /\ deployment = "chat"
    /\ pc = "awaitFollowup"
    /\ {messages[i].role : i \in 1..Len(messages)} = RecognizedRoles
    /\ Len(contents.value) = 6

(***************************************************************************)
(* C16: the content adapter never silently drops content: for a message    *)
(* with an unrecognized role it fails with an error naming the role        *)
(* instead of returning a list.                                            *)
(* convert_to_gemini_content renders such a message as 'model', the loop   *)
(* of _convert_messages_to_content skips it, and both return [] from       *)
(* their except clause; neither raises.                                    *)
(***************************************************************************)
C16_NoSilentDrop ==
    (JustRendered /\ \E i \in 1..Len(RenderedLog) :
                        RenderedLog[i].role \notin RecognizedRoles)
        => contents.kind = "raised"

C18_ToolResultRoundTrip ==
    (deployment = "chat" /\ pc = "awaitFollowup") =>
        /\ contents.kind = "returned"
        /\ LET n == Len(contents.value)
           IN  /\ n >= 2
               /\ contents.value[n - 1].role = "model"
               /\ contents.value[n - 1].text = cmd.label \o exec.result.value

\* a markdown table with newlines and pipes came back from the server
C18_Witness ==
    /\ deployment = "chat"
    /\ pc = "awaitFollowup"
    /\ exec.outcome.kind = "text"
    /\ exec.result.value \in ToolTexts
    /\ cmd.tool = "query_data"

(***************************************************************************)
(* C19: get_messages returns an immutable snapshot: nothing a caller does  *)
(* to the returned list (appending, removing, changing the role or the     *)
(* content of an element) changes what the store holds.                    *)
(* The list is a shallow copy and Message is a mutable dataclass: an       *)
(* assignment to a field of an element changes the store's own object.     *)
(***************************************************************************)
C19_SnapshotImmutable ==
    [][lastOp' \in {"caller_list", "caller_element"} => store' = store]_vars

(***************************************************************************)
(* C20: the log is append-only: across every add_message and every step    *)
(* of process_query the log before is a prefix of the log after, so no     *)
(* message is reordered, dropped, altered or removed.                      *)
(***************************************************************************)
C20_AppendOnly ==
    [][lastOp' \in {"add_message", "start", "model", "tool", "followup"}
          => /\ IsPrefix(messages, messages')
             /\ IsPrefix(store, store')]_vars

C20_Witness ==
    /\ deployment = "session"
    /\ lastOp = "add_message"
    /\ Len(store) = 3
    /\ store[1] = SeedMessages[1]

(***************************************************************************)
(* Vocabulary of the run properties.                                       *)
(***************************************************************************)
\* the chat loop of a run() whose tool listing gave no tools
Degraded ==
    /\ deployment = "chat"
    /\ runPc = "loop"
    /\ runInfo.catalog \in {"empty", "failed"}

(***************************************************************************)
(* C21: a handshake that does not complete within the configured timeout   *)
(* makes run() fail with a timeout and abort before the chat loop: no tool *)
(* listing, no model call, no tool call, no message in that run.           *)
(* run() waits 30.0 seconds, a literal; ChatConfig.session_timeout (15.0)  *)
(* is read nowhere, so a handshake of 20 seconds goes on to the loop.      *)
(***************************************************************************)
C21_HandshakeTimeout ==
    /\ (deployment = "chat" /\ runPc \in {"listing", "loop"})
          => runInfo.handshake <= SessionTimeout
    /\ lastOp = "timeout"
          => /\ runPc = "none"
             /\ pc = "idle"
             /\ live = 0
             /\ session # runs

(***************************************************************************)
(* C22: an empty tool catalog is a degraded state, not a fatal one: when   *)
(* list_tools returns no tools or fails, run() logs a warning and still    *)
(* enters the chat loop, and every query is answered with a non-empty      *)
(* string.                                                                 *)
(***************************************************************************)
C22_EmptyCatalogNonFatal ==
    /\ lastOp = "list" => runPc = "loop"
    /\ Degraded => runInfo.warned
    /\ (Degraded /\ Ended) => (ret.kind = "returned" /\ ret.value # "")

\* the model answered without text in a run whose catalog was empty
C22_Witness ==
    /\ Degraded
    /\ runInfo.catalog = "empty"
    /\ Ended
    /\ lastOp = "model"
    /\ first = [kind |-> "text", text |-> ""]
    /\ ret.value # ""

(***************************************************************************)
(* C23: in degraded mode (the catalog listed at the start of the session   *)
(* is empty) process_query attempts no tool call, whatever the model       *)
(* answers.                                                                *)
(* _get_available_tools stores the session before it looks at the         *)
(* catalog, and the parser never consults the catalog: GET_SCHEMA is sent  *)
(* to the server all the same.                                             *)
(***************************************************************************)
C23_NoToolCallWhenDegraded ==
    (Degraded /\ runInfo.catalog = "empty") =>
        /\ exec.calls = 0
        /\ exec.state # "awaiting"

(***************************************************************************)
(* C24: the process boundary is released on every way out: whenever run()  *)
(* or the web UI's per-query session has ended (exit word, handshake       *)
(* timeout, handshake fault, an exception in mid-session) the session and  *)
(* the channel it opened are closed.                                       *)
(***************************************************************************)
C24_ChannelReleased ==
    /\ runPc = "none" => live = 0
    /\ web.pc = "idle" => web.channel = 0

\* run() left by an exception that chat_loop does not catch
C24_Witness ==
    /\ deployment = "chat"
    /\ lastOp = "CancelledError"
    /\ runs = 1
    /\ runPc = "none"
    /\ live = 0

(***************************************************************************)
(* C25: a fault while one query is processed (model error, tool error,     *)
(* parsing error, any other Exception in the loop body) never ends the     *)
(* chat loop, which goes on to read the next query.                        *)
(***************************************************************************)
C25_LoopSurvivesQueryFaults ==
    [][(deployment = "chat" /\ runPc = "loop")
          => /\ (pc # "idle" /\ pc' = "idle") => runPc' = "loop"
             /\ lastOp' \in {"start", "model", "tool", "followup", "skip",
                            "EOFError"} => runPc' = "loop"]_vars

\* the model call raised inside the loop and the loop is still reading
C25_Witness ==
    /\ deployment = "chat"
    /\ runPc = "loop"
    /\ Ended
    /\ first.kind = "raise"
    /\ lastOp = "model"

(***************************************************************************)
(* C26: a missing API credential or a missing server file is detected      *)
(* before any session work begins: the CLI entry point then spawns no      *)
(* tool-server subprocess, performs no handshake and makes no model call.  *)
(***************************************************************************)
C26_ConfigCheckedFirst ==
    (deployment = "cli" /\ (cli.key \in {"none", ""} \/ ~cli.file)) =>
        /\ cli.pc \in {"start", "failed"}
        /\ runs = 0 /\ runPc = "none" /\ live = 0
        /\ modelCalls = 0 /\ pc = "idle"
        /\ messages = SeedMessages

\* main() has given up on an empty GOOGLE_API_KEY although the server file
\* is there
C26_Witness ==
    /\ deployment = "cli"
    /\ cli.pc = "failed"
    /\ cli.key = ""
    /\ cli.file
    /\ runs = 0

(***************************************************************************)
(* The structured-mode client: tool calls of a turn (C27..C30).            *)
(***************************************************************************)
\* a process_query call has come to its end, by return or by exception
StructEnded ==
    /\ deployment = "structured"
    /\ struct.pc \in {"idle", "ended"}
    /\ struct.ret # "none"
    /\ struct.modelCalls > 0

\* the messages the call in hand has appended so far
StructAppended == SubSeq(struct.messages, struct.startLen + 1, Len(struct.messages))

\* the tool_use ids of the tool-result messages the call has appended
StructResultIds ==
    LET results == SelectSeq(StructAppended, LAMBDA m : m.kind = "tool_result")
    IN  [i \in 1..Len(results) |-> results[i].ref]

\* C27: a model turn with N tool-call parts leads to exactly N tool
\* invocations, one at a time and in the order of the parts, and to N
\* tool-result messages appended in that order: never two calls in flight,
\* the invocations so far are always the first tool calls of the turn, and
\* once the call is over all of them were invoked and answered.
C27_OneInvocationPerToolPart ==
    deployment = "structured" =>
        /\ struct.inflight <= 1
        /\ Len(struct.invoked) <= Len(ToolIds(struct.turn))
        /\ struct.invoked = SubSeq(ToolIds(struct.turn), 1, Len(struct.invoked))
        /\ (StructEnded /\ struct.turn # <<>>) =>
               /\ struct.invoked = ToolIds(struct.turn)
               /\ StructResultIds = ToolIds(struct.turn)

\* C28: no follow-up model call is issued while a tool-call part of the
\* turn is still unexecuted: while the follow-up answer is awaited, every
\* tool call of the turn has been invoked and its result appended, and no
\* call ends with a tool call of its turn unexecuted or unanswered.
C28_ToolsBeforeFollowup ==
    /\ (deployment = "structured" /\ struct.pc = "awaitFollowup") =>
           /\ struct.invoked = ToolIds(struct.turn)
           /\ StructResultIds = ToolIds(struct.turn)
    /\ (StructEnded /\ struct.turn # <<>>) =>
           \A j \in 1..Len(struct.turn) :
               struct.turn[j] > 0 =>
                   /\ \E i \in 1..Len(struct.invoked) :
                          struct.invoked[i] = struct.turn[j]
                   /\ \E i \in 1..Len(StructResultIds) :
                          StructResultIds[i] = struct.turn[j]

C30_CycleEndsWithAssistant ==
    deployment = "structured" =>
        /\ StructEnded =>
               /\ struct.ret = "returned"
               /\ Len(struct.messages) > struct.startLen
               /\ struct.messages[Len(struct.messages)].role = "assistant"
        /\ \A i \in 1..(Len(struct.messages) - 1) :
               ~(struct.messages[i].kind = "query"
                    /\ struct.messages[i + 1].kind = "query")

(***************************************************************************)
(* Order of the steps of a token-mode cycle (C31).                         *)
(***************************************************************************)
\* C31: while the follow-up model call is under way the tool invocation has
\* completed, the last two messages of the log are the Tool message with
\* its result and then the internal User message, and the rendered contents
\* sent with the call end with these two; while the tool is awaited none of
\* this has happened yet.
C31_StepsInOrder ==
    /\ (InChat /\ pc = "awaitFollowup") =>
          /\ exec.state = "done"
          /\ exec.result.kind = "returned"
          /\ modelCalls = 2
          /\ Len(messages) = startLen + 3
          /\ messages[Len(messages) - 1]
                = Message(TOOL, cmd.label \o exec.result.value)
          /\ messages[Len(messages)] = Message(USER, cmd.prompt)
          /\ contents.kind = "returned"
          /\ Len(contents.value) = Len(messages)
          /\ contents.value[Len(messages) - 1]
                = Content("model", cmd.label \o exec.result.value)
          /\ contents.value[Len(messages)] = Content("user", cmd.prompt)
    /\ (InChat /\ pc = "awaitTool") =>
          /\ exec.state = "awaiting"
          /\ modelCalls = 1
          /\ Len(messages) = startLen + 1
          /\ messages[Len(messages)].role = USER

C31_Witness ==
    /\ deployment = "chat"
    /\ pc = "awaitFollowup"
    /\ exec.calls = 1
    /\ exec.outcome.kind = "text"
    /\ cmd.name = "GET_SCHEMA"

(***************************************************************************)
(* Retrieval of the tool catalog (C32).                                    *)
(***************************************************************************)
\* C32: the tool catalog is retrieved once per session, after initialize
\* and before the first query, and not again for each query: in token mode
\* the chat loop is entered only with the listing done, no listing is done
\* before the handshake, and the structured-mode client lists the tools at
\* most once on its session.
C32_CatalogRetrievedOnce ==
    /\ (InChat /\ runPc = "loop") => runInfo.catalog # "none"
    /\ (InChat /\ runPc \in {"none", "initializing", "listing"}) =>
           runInfo.catalog = "none"
    /\ (InChat /\ runPc \in {"initializing", "listing"}) => pc = "idle"
    /\ deployment = "structured" => struct.listings <= 1

(***************************************************************************)
(* Exit keywords and empty lines in the chat loop (C33).                   *)
(***************************************************************************)
\* the line, without the blanks around it, is an exit keyword in some
\* letter case
IsExitKeyword(line) == Upper(Strip(line)) \in {"QUIT", "EXIT", "BYE", "Q"}

ExitLines  == {line \in InputLines : IsExitKeyword(line)}
EmptyLines == {line \in InputLines : Strip(line) = ""}

\* C33: reading an exit keyword ends the loop and reading an empty line
\* goes on to the next prompt; neither starts process_query, changes the
\* message log or makes a model or tool call.
C33_ExitAndEmptyLines ==
    [][/\ \A line \in ExitLines :
             ChatLoop_Read(line) =>
                 /\ runPc' = "none"
                 /\ lastOp' = "exit"
                 /\ pc' = "idle"
                 /\ UNCHANGED <<messages, modelCalls, toolInvocations, exec,
                                contents, ret>>
       /\ \A line \in EmptyLines :
             ChatLoop_Read(line) =>
                 /\ runPc' = "loop"
                 /\ lastOp' = "skip"
                 /\ pc' = "idle"
                 /\ UNCHANGED <<messages, modelCalls, toolInvocations, exec,
                                contents, ret>>]_vars

C33_Witness ==
    /\ ExitLines = {"Quit", "q", "EXIT", " bye "}
    /\ EmptyLines = {"", "   "}
    /\ deployment = "chat"
    /\ lastOp = "exit"
    /\ runPc = "none"
    /\ Len(messages) > 1
    /\ modelCalls = 1

(***************************************************************************)
(* Independence of two objects (C34).                                      *)
(***************************************************************************)
\* C34: under every interleaving of the operations of two Chat objects, or
\* of two InMemoryChatSession objects, the message log of each object is
\* what it is when the other object does not exist.
C34_NoSharedLog ==
    deployment = "pair" =>
        /\ PairLog(1) = pair.solo[1]
        /\ PairLog(2) = pair.solo[2]

C34_Witness ==
    /\ deployment = "pair"
    /\ pair.kind = "chat"
    /\ pair.obj[1].pc = "awaitTool"
    /\ pair.obj[2].pc = "awaitFollowup"
    /\ Len(PairLog(1)) = 2
    /\ Len(PairLog(2)) = 4

(***************************************************************************)
(* The processing flag of the web UI (C35).                                *)
(***************************************************************************)
\* C35: under every interleaving of Send, Clear History and the completion
\* of the round trip, a state with is_processing = True is eventually
\* followed by a state with is_processing = False.
C35_ProcessingEventuallyCleared ==
    (deployment = "web" /\ ui.is_processing) ~> ~ui.is_processing

(***************************************************************************)
(* Remote calls and the life of the session (C36, C37).                    *)
(***************************************************************************)
\* C36: a remote call_tool is only ever under way on a session that has
\* been initialized and is not yet torn down: the session the Chat holds
\* is the one whose channel is open.
C36_NoCallOnClosedSession ==
    (InChat /\ pc = "awaitTool") =>
        /\ session # 0
        /\ session = live

\* the Tool message of the cycle in hand
ToolMessages == SelectSeq(Appended, LAMBDA m : m.role = TOOL)

\* C37: the session is recorded only when the listing succeeds; a Chat
\* without a recorded session makes no remote call for a command, appends
\* the Tool message that carries 'Error: No active MCP session', and the
\* query ends with an Assistant message.
C37_NoSessionNoRemoteCall ==
    /\ (InChat /\ runInfo.catalog = "failed") => session = 0
    /\ (InChat /\ session = 0) => pc # "awaitTool"
    /\ (InChat /\ session = 0 /\ cmd.name # "none"
            /\ (pc = "awaitFollowup" \/ (pc = "idle" /\ ret.kind # "none"))) =>
           /\ exec.calls = 0
           /\ toolInvocations = 1
           /\ ToolMessages
                 = <<Message(TOOL, cmd.label \o "Error: No active MCP session")>>
           /\ pc = "idle" =>
                  /\ ret.kind = "returned"
                  /\ messages[Len(messages)] = Message(ASSISTANT, ret.value)

(***************************************************************************)
(* Equivalence of the two content adapters (C38).                          *)
(***************************************************************************)
\* C38: for a log whose roles are System, User, Assistant or Tool, the
\* list either adapter has just rendered from it is the list of (wire
\* role, text) pairs the other adapter renders from the same log.
C38_AdaptersEquivalent ==
    (JustRendered /\ \A i \in 1..Len(RenderedLog) :
                        RenderedLog[i].role \in RecognizedRoles) =>
        /\ contents = Chat_Convert(RenderedLog).contents
        /\ contents = Session_Convert(RenderedLog).contents

C38_Witness ==
    /\ deployment = "session"
    /\ lastOp = "convert"
    /\ Len(store) = 3
    /\ store[1].role = SYSTEM
    /\ {store[2].role, store[3].role} = {ASSISTANT, TOOL}
    /\ contents = Chat_Convert(store).contents

(***************************************************************************)
(* The security check of query_data (C39).                                 *)
(***************************************************************************)
\* the statement contains, in some letter case, one of the three phrases
NamesDangerousOperation(sql) ==
    \E phrase \in {"DROP TABLE", "DROP DATABASE", "DELETE FROM SQLITE_MASTER"} :
        Contains(Upper(sql), phrase)

\* C39: a statement that contains 'DROP TABLE', 'DROP DATABASE' or
\* 'DELETE FROM sqlite_master' in any letter case is never executed:
\* query_data returns the security warning and the database is as before.
C39_DangerousStatementsBlocked ==
    (deployment = "server" /\ lastOp = "query_data"
        /\ NamesDangerousOperation(server.sql)) =>
        /\ ~server.executed
        /\ server.ret = SecurityWarning
        /\ server.db = server.was

====
